---------------------------- MODULE Spec2Model ----------------------------
(***************************************************************************)
(* Model of the FT80x character driver (drivers/lcd/ft80x_base.c): the     *)
(* reference-counted lifetime of one device instance (open / close /       *)
(* unlink / destroy), the exclusion semaphore and the transport calls of   *)
(* write and ioctl.                                                        *)
(*                                                                         *)
(* Three specifications share the instance's state:                        *)
(*   Spec      every file operation runs as one atomic call;               *)
(*   SpecReg   ft80x_register() and the bring-up of the chip;              *)
(*   SpecConc  several threads run the file operations concurrently, one   *)
(*             field access, semaphore call or transport call per step.    *)
(***************************************************************************)
EXTENDS Integers, Sequences, FiniteSets, TLC

VARIABLES
    crefs,      \* priv->crefs: uint8_t count of open references
    unlinked,   \* priv->unlinked: true once the node was unlinked
    exclsem,    \* count of priv->exclsem
    sites,      \* the call sites that ran ft80x_destroy() on the instance, in order
    last,       \* Spec: the last atomic call, its result and the fields before it
    linked,     \* SpecConc: the node is still in the name space (VFS)
    pc,         \* SpecConc: position of each thread inside a file operation
    handles,    \* SpecConc: open file handles each thread owns
    holders,    \* SpecConc: threads between a successful nxsem_wait and nxsem_post
    xfer,       \* SpecConc: threads inside a transport call
    nxfer,      \* SpecConc: transport calls made by the operation in progress
    nintr,      \* SpecConc: waits on the semaphore that were interrupted so far
    uaf,        \* SpecConc: a thread accessed the instance after ft80x_destroy()
    frequency,  \* priv->frequency: the bus frequency of the instance
    reg,        \* SpecReg: the build, the board, the chip on the bus and
                \* what the calls of ft80x_register() did
    pipe        \* SpecPipe: g_pipesem, g_pipeset, g_pipecreated of pipe.c and
                \* the tasks that create and close pipes

dev  == <<crefs, unlinked, exclsem, sites>>
conc == <<linked, pc, handles, holders, xfer, nxfer, nintr, uaf>>
boot == <<frequency, reg>>
ft80x == <<dev, last, conc, boot>>
vars == <<crefs, unlinked, exclsem, sites, last,
          linked, pc, handles, holders, xfer, nxfer, nintr, uaf,
          frequency, reg, pipe>>

\* Number of times ft80x_destroy() ran on the instance
destroyed == Len(sites)

---------------------------------------------------------------------------
(* Bounds of the model *)

NThreads    == 3
MaxHandles  == 1
MaxIntr     == 1
MaxRegister == 2

Threads == 1..NThreads

---------------------------------------------------------------------------
(* Program constants *)

OK        == 0
EMFILE    == 24
EINVAL    == 22
ENOTTY    == 25
ENODEV    == 19
ENOMEM    == 12
UINT8_MOD == 256

\* Size of the display list memory in bytes
FT80X_RAM_DL_SIZE == 8192

\* The bits of REG_ID that hold the chip identity
ID_MASK == 255

\* The identity that REG_ID holds: 0x7c
CHIPID == 124

\* ROMID of the FT800 (0x01000800) and of the FT801 (0x01000801)
ROMID_FT800 == 16779264
ROMID_FT801 == 16779265

ROMID(variant) == IF variant = "FT800" THEN ROMID_FT800 ELSE ROMID_FT801

\* The largest frequencies that ft80x_initialize() asserts
INIT_FREQUENCY_MAX == 11000000
OP_FREQUENCY_MAX   == 30000000

---------------------------------------------------------------------------
(* Initial state: the instance as a ft80x_register() that returned OK      *)
(* leaves it.  kmm_zalloc() zeroes crefs and unlinked, sem_init() sets the *)
(* semaphore to 1, ft80x_initialize() ends at the operating frequency and  *)
(* register_driver() links the node.                                       *)

\* One transport call: the function, the register or memory it addresses,
\* the value written or read (the length of a block), the address of the
\* caller's block and priv->frequency at the call
Xfer(op, base, off, val, src, f) ==
    [op |-> op, base |-> base, off |-> off, val |-> val, src |-> src, freq |-> f]

NoReq == [cmd |-> "none", arg |-> 0, val |-> 0]

NoCall == [op |-> "none", ret |-> OK, crefs0 |-> 0, unlinked0 |-> FALSE,
           destroyed0 |-> 0, req |-> NoReq, io |-> <<>>, out |-> 0,
           fault |-> FALSE, panic |-> FALSE, hook |-> FALSE, teardown |-> <<>>]

\* The node of the instance is registered; the file operations do not
\* look at how it came to be
\* pipe.c before its first call: g_pipesem = SEM_INITIALIZER(1), no bit set
NoPipes == [sem |-> 1, set |-> {}, created |-> {}]

Registered == [node |-> TRUE]

Init ==
    /\ crefs = 0
    /\ unlinked = FALSE
    /\ exclsem = 1
    /\ sites = <<>>
    /\ last = NoCall
    /\ linked = TRUE
    /\ pc = [t \in Threads |-> "idle"]
    /\ handles = [t \in Threads |-> 0]
    /\ holders = {}
    /\ xfer = {}
    /\ nxfer = [t \in Threads |-> 0]
    /\ nintr = 0
    /\ uaf = FALSE
    /\ frequency = OP_FREQUENCY_MAX
    /\ reg = Registered
    /\ pipe = NoPipes

---------------------------------------------------------------------------
(* Pieces of the handlers that both specifications use *)

\* Faulty variant: tmp held in an int, which never wraps to zero
open_tmp_wide(c) == c + 1

\* tmp = priv->crefs + 1, stored in a uint8_t
open_tmp(c) == (c + 1) % UINT8_MOD

\* Faulty variant: the test written as crefs < 1
close_last_strict(c) == c < 1

\* if (priv->crefs <= 1): will the count decrement to zero?
close_last(c) == c <= 1

\* Faulty variant: the decrement left out
close_decrement_none(c) == c

\* priv->crefs--
close_decrement(c) == c - 1

\* Faulty variant: the last close destroys whether unlinked or not
close_must_destroy_always(u) == TRUE

\* Faulty variant: the last close never destroys
close_must_destroy_never(u) == FALSE

\* ft80x_close: if (priv->unlinked) after the count was set to zero
close_must_destroy(u) == u

\* Faulty variant: unlink destroys without looking at the count
unlink_must_destroy_always(c) == TRUE

\* ft80x_unlink: if (priv->crefs == 0)
unlink_must_destroy(c) == c = 0

\* Faulty variant: unlink toggles the flag
unlink_mark_toggle(u) == ~u

\* ft80x_unlink: priv->unlinked = true
unlink_mark(u) == TRUE

\* The argument check of ft80x_write
write_args_ok(buffer, len) ==
    ~ ( \/ buffer = 0
        \/ buffer % 4 # 0
        \/ len = 0
        \/ len % 4 # 0
        \/ len > FT80X_RAM_DL_SIZE )

\* Faulty variant: a display list that fills the memory is refused
dlsize_too_long_full(n) == n >= FT80X_RAM_DL_SIZE

\* FT80XIOC_PUTDISPLAYLIST: dl->dlsize > FT80X_RAM_DL_SIZE
dlsize_too_long(n) == n > FT80X_RAM_DL_SIZE

\* Faulty variant: the offset one past the end is let through
offset_too_far_strict(off) == off > FT80X_RAM_DL_SIZE

\* FT80XIOC_GETRESULT32: result->offset >= FT80X_RAM_DL_SIZE
offset_too_far(off) == off >= FT80X_RAM_DL_SIZE

\* The argument checks of ft80x_ioctl.  A request is the command, the
\* address arg and the dlsize or offset stored there; dl->cmd follows
\* dl->dlsize and result->offset is the first field of its structure.
ioctl_args_ok(req) ==
    CASE req.cmd = "FT80XIOC_PUTDISPLAYLIST" ->
           ~ ( \/ req.arg = 0
               \/ (req.arg + 4) % 4 # 0
               \/ req.val = 0
               \/ req.val % 4 # 0
               \/ dlsize_too_long(req.val) )
      [] req.cmd = "FT80XIOC_GETRESULT32" ->
           ~ ( \/ req.arg = 0
               \/ req.arg % 4 # 0
               \/ offset_too_far(req.val) )
      [] req.cmd = "FT80XIOC_GETTRACKER" -> req.arg # 0
      [] OTHER -> FALSE

\* Faulty variant: an unknown command is refused like a bad argument
ioctl_ret_einval(req) ==
    IF ioctl_args_ok(req) THEN OK ELSE -EINVAL

\* The value ft80x_ioctl returns for a request
ioctl_ret(req) ==
    IF req.cmd \in {"FT80XIOC_PUTDISPLAYLIST", "FT80XIOC_GETRESULT32",
                    "FT80XIOC_GETTRACKER"}
    THEN IF ioctl_args_ok(req) THEN OK ELSE -EINVAL
    ELSE -ENOTTY

\* result->value or *tracker of an accepted request: what the read returned
ioctl_out(req, word) ==
    IF req.cmd \in {"FT80XIOC_GETRESULT32", "FT80XIOC_GETTRACKER"} THEN word ELSE 0

\* The transport call of an accepted request; word is what a read returns
ioctl_transport(req, word, f) ==
    CASE req.cmd = "FT80XIOC_PUTDISPLAYLIST" ->
           Xfer("write_memory", "FT80X_RAM_DL", 0, req.val, req.arg + 4, f)
      [] req.cmd = "FT80XIOC_GETRESULT32" ->
           Xfer("read_word", "FT80X_RAM_DL", req.val, word, 0, f)
      [] req.cmd = "FT80XIOC_GETTRACKER" ->
           Xfer("read_word", "FT80X_REG_TRACKER", 0, word, 0, f)

\* Arguments the callers pass: a null, a misaligned and an aligned address,
\* lengths and offsets around the limits of the checks
Addresses == {0, 4098, 4096}

Lengths == {0, 2, 4, FT80X_RAM_DL_SIZE - 4, FT80X_RAM_DL_SIZE, FT80X_RAM_DL_SIZE + 4}

Commands == {"FT80XIOC_PUTDISPLAYLIST", "FT80XIOC_GETRESULT32",
             "FT80XIOC_GETTRACKER", "unrecognized"}

\* The requests: a display list or a result structure at arg holding val,
\* the address of a tracker word, or a command the driver does not know
IoctlRequests ==
    [cmd : {"FT80XIOC_PUTDISPLAYLIST", "FT80XIOC_GETRESULT32"},
     arg : Addresses, val : Lengths]
    \cup [cmd : {"FT80XIOC_GETTRACKER"}, arg : Addresses, val : {0}]
    \cup [cmd : {"unrecognized"}, arg : {0, 4096}, val : {0}]

\* Words a read of the chip returns
Words == {0, 305419896}

\* What the transport call of an accepted request can read
ReadWords(req) == IF req.cmd = "FT80XIOC_PUTDISPLAYLIST" THEN {0} ELSE Words

---------------------------------------------------------------------------
(* Spec: every call is atomic.  A call is made on an instance that still   *)
(* exists.  No other caller holds the semaphore, so nxsem_wait() takes it  *)
(* without blocking and cannot be interrupted.  A transport call may fail  *)
(* on the bus; the transport hands no status back to the handlers.  A      *)
(* DEBUGASSERT() that does not hold stops the system in a build that       *)
(* compiles assertions in.                                                 *)

Called(op, r) ==
    last' = [op |-> op, ret |-> r, crefs0 |-> crefs, unlinked0 |-> unlinked,
             destroyed0 |-> destroyed, req |-> NoReq, io |-> <<>>, out |-> 0,
             fault |-> FALSE, panic |-> FALSE, hook |-> FALSE,
             teardown |-> <<>>]

\* Faulty variant: the hook of the lower half is called on the freed instance
destroy_events_late(hook) ==
    <<"sem_destroy", "kmm_free">> \o (IF hook THEN <<"lower_destroy">> ELSE <<>>)

\* Faulty variant: the hook is called without the test for NULL
destroy_events_always(hook) == <<"lower_destroy", "sem_destroy", "kmm_free">>

\* What ft80x_destroy(priv) does, in order; hook: priv->lower->destroy != NULL
destroy_events(hook) ==
    (IF hook THEN <<"lower_destroy">> ELSE <<>>) \o <<"sem_destroy", "kmm_free">>

\* A call of close or unlink that ran ft80x_destroy() on a lower half with
\* or without a destroy method
CalledDestroy(op, r, hook) ==
    last' = [op |-> op, ret |-> r, crefs0 |-> crefs, unlinked0 |-> unlinked,
             destroyed0 |-> destroyed, req |-> NoReq, io |-> <<>>, out |-> 0,
             fault |-> FALSE, panic |-> FALSE, hook |-> hook,
             teardown |-> destroy_events(hook)]

\* A call of write or ioctl: its request, its transport calls, the value
\* it stored through the caller's pointer, whether the bus failed in a
\* transport call and whether an assertion stopped the system
CalledIO(op, r, req, io, out, fault, panic) ==
    last' = [op |-> op, ret |-> r, crefs0 |-> crefs, unlinked0 |-> unlinked,
             destroyed0 |-> destroyed, req |-> req, io |-> io, out |-> out,
             fault |-> fault, panic |-> panic, hook |-> FALSE,
             teardown |-> <<>>]

\* Faulty variant: a dispatcher operation falls back to the init frequency
dispatcher_frame_slow ==
    /\ frequency' = INIT_FREQUENCY_MAX
    /\ UNCHANGED <<dev, conc, reg, pipe>>

\* write, ioctl and read assign no field of the instance
dispatcher_frame == UNCHANGED <<dev, conc, boot, pipe>>

\* Faulty variant: read reports the length it was asked for
read_ret_len(len) == len

\* ft80x_read: return 0
read_ret(len) == 0

ft80x_open ==
    /\ destroyed = 0
    /\ ~last.panic
    /\ exclsem > 0
    /\ UNCHANGED <<unlinked, exclsem, sites, conc, boot, pipe>>
    /\ LET tmp == open_tmp(crefs) IN
       IF tmp = 0
       THEN /\ Called("open", -EMFILE)
            /\ UNCHANGED crefs
       ELSE /\ crefs' = tmp
            /\ Called("open", OK)

ft80x_close ==
    /\ destroyed = 0
    /\ ~last.panic
    /\ exclsem > 0
    /\ UNCHANGED <<unlinked, conc, boot, pipe>>
    /\ IF close_last(crefs)
       THEN /\ crefs' = 0
            /\ IF close_must_destroy(unlinked)
               THEN /\ sites' = Append(sites, "close")
                    /\ exclsem' = exclsem - 1
                    /\ \E hook \in BOOLEAN : CalledDestroy("close", OK, hook)
               ELSE /\ UNCHANGED <<sites, exclsem>>
                    /\ Called("close", OK)
       ELSE /\ crefs' = close_decrement(crefs)
            /\ UNCHANGED <<sites, exclsem>>
            /\ Called("close", OK)

ft80x_unlink ==
    /\ destroyed = 0
    /\ ~last.panic
    /\ unlinked' = unlink_mark(unlinked)
    /\ IF unlink_must_destroy(crefs)
       THEN /\ sites' = Append(sites, "unlink")
            /\ \E hook \in BOOLEAN : CalledDestroy("unlink", OK, hook)
       ELSE /\ UNCHANGED sites
            /\ Called("unlink", OK)
    /\ UNCHANGED <<crefs, exclsem, conc, boot, pipe>>

\* write() on an open file.  The DEBUGASSERT() of the arguments comes
\* before the check that returns -EINVAL.
ft80x_write ==
    /\ destroyed = 0
    /\ ~last.panic
    /\ crefs > 0
    /\ exclsem > 0
    /\ \E buffer \in Addresses, len \in Lengths :
         LET req == [cmd |-> "write", arg |-> buffer, val |-> len] IN
         IF ~write_args_ok(buffer, len)
         THEN \E assertions \in BOOLEAN :
                IF assertions
                THEN CalledIO("write", OK, req, <<>>, 0, FALSE, TRUE)
                ELSE CalledIO("write", -EINVAL, req, <<>>, 0, FALSE, FALSE)
         ELSE \E fault \in BOOLEAN :
                CalledIO("write", len, req,
                         <<Xfer("write_memory", "FT80X_RAM_DL", 0, len, buffer,
                                frequency)>>,
                         0, fault, FALSE)
    /\ dispatcher_frame

\* ioctl() on an open file
ft80x_ioctl ==
    /\ destroyed = 0
    /\ ~last.panic
    /\ crefs > 0
    /\ exclsem > 0
    /\ \E req \in IoctlRequests :
         IF ioctl_args_ok(req)
         THEN \E word \in ReadWords(req), fault \in BOOLEAN :
                CalledIO("ioctl", ioctl_ret(req), req,
                         <<ioctl_transport(req, word, frequency)>>,
                         ioctl_out(req, word), fault, FALSE)
         ELSE CalledIO("ioctl", ioctl_ret(req), req, <<>>, 0, FALSE, FALSE)
    /\ dispatcher_frame

\* read() on an open file: no semaphore, no transport call
ft80x_read ==
    /\ destroyed = 0
    /\ ~last.panic
    /\ crefs > 0
    /\ \E buffer \in Addresses, len \in Lengths :
         CalledIO("read", read_ret(len),
                  [cmd |-> "read", arg |-> buffer, val |-> len],
                  <<>>, 0, FALSE, FALSE)
    /\ dispatcher_frame

Next ==
    \/ ft80x_open
    \/ ft80x_close
    \/ ft80x_unlink
    \/ ft80x_write
    \/ ft80x_ioctl
    \/ ft80x_read

Spec == Init /\ [][Next]_vars

---------------------------------------------------------------------------
(* SpecReg: ft80x_register() and the bring-up of the chip, from a board    *)
(* on which nothing is registered.  A call runs to its return: it has no   *)
(* caller that could run beside it.  The build fixes the chip variant and  *)
(* the display, the board's lower half the two frequencies, and the chip   *)
(* on the bus what the reads of bring-up return.                           *)

\* Frequencies a lower half passes; ft80x_initialize() asserts their limits
InitFrequencies == {1000000, INIT_FREQUENCY_MAX}

OpFrequencies == {INIT_FREQUENCY_MAX, OP_FREQUENCY_MAX}

\* Answers to the read of REG_ID: the identity, the identity below other
\* bits of the word, and two words of another chip
IdWords == {CHIPID, CHIPID + 65536, CHIPID + 1, 0}

\* Answers to the read of ROM_CHIPID
RomWords == {ROMID_FT800, ROMID_FT801, 2048, 0}

\* Answers to the reads of REG_GPIO_DIR and REG_GPIO
GpioBytes == {0, 128}

\* The build (chip variant and display) and the frequencies of the lower half
Configs ==
    [variant : {"FT800", "FT801"}, display : {"WQVGA", "QVGA"},
     init_frequency : InitFrequencies, op_frequency : OpFrequencies]

\* What the chip on the bus answers
Chips == [id : IdWords, romid : RomWords, gpio_dir : GpioBytes, gpio : GpioBytes]

\* Nothing was registered so far
NoRegister(cfg, ch) ==
    [config |-> cfg, chip |-> ch, calls |-> 0, ret |-> OK, init_ran |-> FALSE,
     init_ret |-> OK, driver_called |-> FALSE, bus |-> <<>>,
     heap |-> 0, sems |-> 0, node |-> FALSE]

config == reg.config

chip == reg.chip

InitReg ==
    /\ crefs = 0
    /\ unlinked = FALSE
    /\ exclsem = 1
    /\ sites = <<>>
    /\ last = NoCall
    /\ linked = FALSE
    /\ pc = [t \in Threads |-> "idle"]
    /\ handles = [t \in Threads |-> 0]
    /\ holders = {}
    /\ xfer = {}
    /\ nxfer = [t \in Threads |-> 0]
    /\ nintr = 0
    /\ uaf = FALSE
    /\ frequency = 0
    /\ reg \in {NoRegister(cfg, ch) : cfg \in Configs, ch \in Chips}
    /\ pipe = NoPipes

\* Faulty variant: bring-up starts at the operating frequency
initial_frequency_op(cfg) == cfg.op_frequency

\* priv->frequency = priv->lower->init_frequency
initial_frequency(cfg) == cfg.init_frequency

\* regval32 is declared uint8_t: the word read is cut to its low 8 bits
regval32_of(word) == word % UINT8_MOD

\* (regval32 & ID_MASK) != 0x7c
chipid_bad(regval32) == regval32 % (ID_MASK + 1) # CHIPID

\* Faulty variant: any ROM identity is taken
romid_bad_never(regval32, romid) == FALSE

\* regval32 != ROMID
romid_bad(regval32, romid) == regval32 # romid

\* regval8 |= (1 << 7)
set_bit7(regval8) == IF regval8 % 256 >= 128 THEN regval8 ELSE regval8 + 128

\* A write of a register
WriteReg(fn, r, val, f) == Xfer(fn, r, 0, val, 0, f)

\* The timing registers in the order ft80x_initialize() writes them
TimingWrites(display, f) ==
    IF display = "WQVGA"
    THEN << WriteReg("write_hword", "FT80X_REG_HCYCLE", 548, f),
            WriteReg("write_hword", "FT80X_REG_HOFFSET", 43, f),
            WriteReg("write_hword", "FT80X_REG_HSYNC0", 0, f),
            WriteReg("write_hword", "FT80X_REG_HSYNC1", 41, f),
            WriteReg("write_hword", "FT80X_REG_VCYCLE", 292, f),
            WriteReg("write_hword", "FT80X_REG_VOFFSET", 12, f),
            WriteReg("write_hword", "FT80X_REG_VSYNC0", 0, f),
            WriteReg("write_hword", "FT80X_REG_VSYNC1", 10, f),
            WriteReg("write_byte", "FT80X_REG_SWIZZLE", 0, f),
            WriteReg("write_byte", "FT80X_REG_PCLK_POL", 1, f),
            WriteReg("write_byte", "FT80X_REG_CSPREAD", 1, f),
            WriteReg("write_hword", "FT80X_REG_HSIZE", 480, f),
            WriteReg("write_hword", "FT80X_REG_VSIZE", 272, f) >>
    ELSE << WriteReg("write_hword", "FT80X_REG_HCYCLE", 408, f),
            WriteReg("write_hword", "FT80X_REG_HOFFSET", 70, f),
            WriteReg("write_hword", "FT80X_REG_HSYNC0", 0, f),
            WriteReg("write_hword", "FT80X_REG_HSYNC1", 10, f),
            WriteReg("write_hword", "FT80X_REG_VCYCLE", 263, f),
            WriteReg("write_hword", "FT80X_REG_VOFFSET", 13, f),
            WriteReg("write_hword", "FT80X_REG_VSYNC0", 0, f),
            WriteReg("write_hword", "FT80X_REG_VSYNC1", 2, f),
            WriteReg("write_byte", "FT80X_REG_SWIZZLE", 0, f),
            WriteReg("write_byte", "FT80X_REG_PCLK_POL", 0, f),
            WriteReg("write_byte", "FT80X_REG_CSPREAD", 1, f),
            WriteReg("write_hword", "FT80X_REG_HSIZE", 320, f),
            WriteReg("write_hword", "FT80X_REG_VSIZE", 240, f) >>

\* The first display list (CLEAR_COLOR_RGB(0,0,0), CLEAR(1,1,1), DISPLAY())
\* and the write of DLSWAP_FRAME to REG_DLSWAP
FirstDisplayList(f) ==
    << Xfer("write_word", "FT80X_RAM_DL", 0, 33554432, 0, f),
       Xfer("write_word", "FT80X_RAM_DL", 4, 637534215, 0, f),
       Xfer("write_word", "FT80X_RAM_DL", 8, 0, 0, f),
       WriteReg("write_byte", "FT80X_REG_DLSWAP", 2, f) >>

\* GPIO bit 7 enables the display: direction, then value
EnableDisplay(ch, f) ==
    << WriteReg("read_byte", "FT80X_REG_GPIO_DIR", ch.gpio_dir, f),
       WriteReg("write_byte", "FT80X_REG_GPIO_DIR", set_bit7(ch.gpio_dir), f),
       WriteReg("read_byte", "FT80X_REG_GPIO", ch.gpio, f),
       WriteReg("write_byte", "FT80X_REG_GPIO", set_bit7(ch.gpio), f) >>

\* ft80x_initialize(priv): the value it returns, its transport calls in
\* order and priv->frequency when it returns
ft80x_initialize(cfg, ch) ==
    LET f    == initial_frequency(cfg)
        head == << Xfer("host_command", "FT80X_CMD_CLKEXT", 0, 0, 0, f),
                   Xfer("host_command", "FT80X_CMD_ACTIVE", 0, 0, 0, f),
                   WriteReg("read_word", "FT80X_REG_ID", ch.id, f) >>
        rom  == head \o << WriteReg("read_word", "FT80X_ROM_CHIPID", ch.romid, f) >>
    IN  IF chipid_bad(regval32_of(ch.id))
        THEN [ret |-> -ENODEV, bus |-> head, frequency |-> f]
        ELSE IF romid_bad(regval32_of(ch.romid), ROMID(cfg.variant))
        THEN [ret |-> -ENODEV, bus |-> rom, frequency |-> f]
        ELSE [ret |-> OK,
              bus |-> rom \o << WriteReg("write_byte", "FT80X_REG_PCLK", 0, f) >>
                          \o TimingWrites(cfg.display, f)
                          \o FirstDisplayList(f)
                          \o EnableDisplay(ch, f)
                          \o << WriteReg("write_byte", "FT80X_REG_PCLK", 5, f) >>,
              frequency |-> cfg.op_frequency]

\* ft80x_register(): kmm_zalloc() may fail; register_driver() fails when it
\* has no memory or the node exists.  errout_with_sem destroys the
\* semaphore and returns.
ft80x_register ==
    /\ reg.calls < MaxRegister
    /\ \E alloc_ok \in BOOLEAN, driver_ok \in BOOLEAN :
         IF ~alloc_ok
         THEN /\ reg' = [reg EXCEPT !.calls = @ + 1, !.ret = -ENOMEM,
                                    !.init_ran = FALSE, !.init_ret = OK,
                                    !.driver_called = FALSE, !.bus = <<>>]
              /\ UNCHANGED frequency
         ELSE LET up   == ft80x_initialize(config, chip)
                  made == up.ret = OK /\ driver_ok /\ ~reg.node
              IN  /\ frequency' = up.frequency
                  /\ reg' = [reg EXCEPT
                               !.calls = @ + 1,
                               !.ret = IF up.ret < 0 THEN up.ret
                                       ELSE IF made THEN OK ELSE -ENOMEM,
                               !.init_ran = TRUE,
                               !.init_ret = up.ret,
                               !.driver_called = up.ret = OK,
                               !.bus = up.bus,
                               !.heap = @ + 1,
                               !.sems = IF made THEN @ + 1 ELSE @,
                               !.node = @ \/ made]
    /\ UNCHANGED <<dev, last, conc, pipe>>

NextReg == ft80x_register

SpecReg == InitReg /\ [][NextReg]_vars

---------------------------------------------------------------------------
(* SpecConc: threads run the file operations concurrently.  A step is one  *)
(* access to a field of the instance, one semaphore call or the start or   *)
(* return of one transport call.  Accesses are atomic and happen in        *)
(* program order.  The VFS starts open() and unlink() only while the node  *)
(* is linked, and close(), write() and ioctl() only on an open handle.     *)
(*                                                                         *)
(* Once ft80x_destroy() ran the instance is freed memory: a read of it     *)
(* returns any value, nxsem_wait() on it may return anything, a store is   *)
(* lost.  Each such access is recorded in uaf.                             *)

Freed == destroyed > 0

Touch == uaf' = (uaf \/ Freed)

FreedByte == {0, 1, 2, UINT8_MOD - 1}

CrefsRead == IF Freed THEN FreedByte ELSE {crefs}

UnlinkedRead == IF Freed THEN BOOLEAN ELSE {unlinked}

StoreCrefs(v) == crefs' = IF Freed THEN crefs ELSE v

Goto(t, l) == pc' = [pc EXCEPT ![t] = l]

\* Faulty variant: the failure of the wait is ignored
wait_errout_ignored(next) == next

\* Where a caller continues when nxsem_wait() failed: goto errout / return ret
wait_errout(next) == "idle"

\* nxsem_wait(&priv->exclsem): takes the semaphore when its count is positive;
\* a caller that has to block may be interrupted and then returns an error.
nxsem_wait(t, next) ==
    \/ /\ ~Freed
       /\ exclsem > 0
       /\ exclsem' = exclsem - 1
       /\ holders' = holders \cup {t}
       /\ Goto(t, next)
       /\ UNCHANGED <<nintr, uaf>>
    \/ /\ ~Freed
       /\ exclsem = 0
       /\ nintr < MaxIntr
       /\ nintr' = nintr + 1
       /\ Goto(t, wait_errout(next))
       /\ UNCHANGED <<exclsem, holders, uaf>>
    \/ /\ Freed
       /\ uaf' = TRUE
       /\ UNCHANGED <<exclsem, nintr>>
       /\ \/ Goto(t, next) /\ holders' = holders \cup {t}
          \/ Goto(t, "idle") /\ UNCHANGED holders

\* Faulty variant: the caller leaves without posting the semaphore
nxsem_post_lost(t) ==
    /\ Touch
    /\ exclsem' = exclsem
    /\ holders' = holders \ {t}

\* nxsem_post(&priv->exclsem)
nxsem_post(t) ==
    /\ Touch
    /\ exclsem' = IF Freed THEN exclsem ELSE exclsem + 1
    /\ holders' = holders \ {t}

\* ft80x_destroy(priv): the destroy hook, sem_destroy() and kmm_free()
ft80x_destroy(t, site) ==
    /\ Touch
    /\ sites' = Append(sites, site)
    /\ holders' = holders \ {t}
    /\ Goto(t, "idle")
    /\ UNCHANGED <<nintr, crefs, unlinked, exclsem, last, boot, pipe, linked, handles, xfer, nxfer>>

(* ft80x_open *)

open_call(t) ==
    /\ pc[t] = "idle"
    /\ linked
    /\ handles[t] < MaxHandles
    /\ Goto(t, "open_wait")
    /\ UNCHANGED <<nintr, dev, last, boot, pipe, linked, handles, holders, xfer, nxfer, uaf>>

open_wait(t) ==
    /\ pc[t] = "open_wait"
    /\ nxsem_wait(t, "open_incr")
    /\ UNCHANGED <<crefs, unlinked, sites, last, boot, pipe, linked, handles, xfer, nxfer>>

open_incr(t) ==
    /\ pc[t] = "open_incr"
    /\ Touch
    /\ \E c \in CrefsRead :
         LET tmp == open_tmp(c) IN
         IF tmp = 0
         THEN Goto(t, "open_post_err") /\ UNCHANGED crefs
         ELSE Goto(t, "open_post_ok") /\ StoreCrefs(tmp)
    /\ UNCHANGED <<nintr, unlinked, exclsem, sites, last, boot, pipe, linked, handles, holders,
                   xfer, nxfer>>

open_post(t) ==
    /\ pc[t] \in {"open_post_ok", "open_post_err"}
    /\ nxsem_post(t)
    /\ handles' = [handles EXCEPT ![t] = IF pc[t] = "open_post_ok" THEN @ + 1 ELSE @]
    /\ Goto(t, "idle")
    /\ UNCHANGED <<nintr, crefs, unlinked, sites, last, boot, pipe, linked, xfer, nxfer>>

(* ft80x_close *)

close_call(t) ==
    /\ pc[t] = "idle"
    /\ handles[t] > 0
    /\ handles' = [handles EXCEPT ![t] = @ - 1]
    /\ Goto(t, "close_wait")
    /\ UNCHANGED <<nintr, dev, last, boot, pipe, linked, holders, xfer, nxfer, uaf>>

close_wait(t) ==
    /\ pc[t] = "close_wait"
    /\ nxsem_wait(t, "close_test")
    /\ UNCHANGED <<crefs, unlinked, sites, last, boot, pipe, linked, handles, xfer, nxfer>>

close_test(t) ==
    /\ pc[t] = "close_test"
    /\ Touch
    /\ \E c \in CrefsRead :
         IF close_last(c) THEN Goto(t, "close_zero") ELSE Goto(t, "close_decr")
    /\ UNCHANGED <<nintr, dev, last, boot, pipe, linked, handles, holders, xfer, nxfer>>

close_zero(t) ==
    /\ pc[t] = "close_zero"
    /\ Touch
    /\ StoreCrefs(0)
    /\ Goto(t, "close_unlinked")
    /\ UNCHANGED <<nintr, unlinked, exclsem, sites, last, boot, pipe, linked, handles, holders,
                   xfer, nxfer>>

close_unlinked(t) ==
    /\ pc[t] = "close_unlinked"
    /\ Touch
    /\ \E u \in UnlinkedRead :
         IF close_must_destroy(u)
         THEN Goto(t, "close_destroy")
         ELSE Goto(t, "close_post")
    /\ UNCHANGED <<nintr, dev, last, boot, pipe, linked, handles, holders, xfer, nxfer>>

close_destroy(t) ==
    /\ pc[t] = "close_destroy"
    /\ ft80x_destroy(t, "close")

close_decr(t) ==
    /\ pc[t] = "close_decr"
    /\ Touch
    /\ \E c \in CrefsRead : StoreCrefs(close_decrement(c))
    /\ Goto(t, "close_post")
    /\ UNCHANGED <<nintr, unlinked, exclsem, sites, last, boot, pipe, linked, handles, holders,
                   xfer, nxfer>>

close_post(t) ==
    /\ pc[t] = "close_post"
    /\ nxsem_post(t)
    /\ Goto(t, "idle")
    /\ UNCHANGED <<nintr, crefs, unlinked, sites, last, boot, pipe, linked, handles, xfer, nxfer>>

(* ft80x_unlink *)

unlink_call(t) ==
    /\ pc[t] = "idle"
    /\ linked
    /\ linked' = FALSE
    /\ Goto(t, "unlink_set")
    /\ UNCHANGED <<nintr, dev, last, boot, pipe, handles, holders, xfer, nxfer, uaf>>

unlink_set(t) ==
    /\ pc[t] = "unlink_set"
    /\ Touch
    /\ unlinked' = IF Freed THEN unlinked ELSE unlink_mark(unlinked)
    /\ Goto(t, "unlink_test")
    /\ UNCHANGED <<nintr, crefs, exclsem, sites, last, boot, pipe, linked, handles, holders,
                   xfer, nxfer>>

unlink_test(t) ==
    /\ pc[t] = "unlink_test"
    /\ Touch
    /\ \E c \in CrefsRead :
         IF unlink_must_destroy(c)
         THEN Goto(t, "unlink_destroy")
         ELSE Goto(t, "idle")
    /\ UNCHANGED <<nintr, dev, last, boot, pipe, linked, handles, holders, xfer, nxfer>>

unlink_destroy(t) ==
    /\ pc[t] = "unlink_destroy"
    /\ ft80x_destroy(t, "unlink")

(* ft80x_write *)

write_call(t) ==
    /\ pc[t] = "idle"
    /\ handles[t] > 0
    /\ \E ok \in {write_args_ok(buffer, len) : buffer \in Addresses, len \in Lengths} :
         IF ok THEN Goto(t, "write_wait") ELSE Goto(t, "idle")
    /\ UNCHANGED <<nintr, dev, last, boot, pipe, linked, handles, holders, xfer, nxfer, uaf>>

write_wait(t) ==
    /\ pc[t] = "write_wait"
    /\ nxsem_wait(t, "write_memory")
    /\ UNCHANGED <<crefs, unlinked, sites, last, boot, pipe, linked, handles, xfer, nxfer>>

\* ft80x_write_memory(priv, FT80X_RAM_DL, buffer, len) is entered ...
write_memory(t) ==
    /\ pc[t] = "write_memory"
    /\ Touch
    /\ xfer' = xfer \cup {t}
    /\ nxfer' = [nxfer EXCEPT ![t] = @ + 1]
    /\ Goto(t, "write_memory_ret")
    /\ UNCHANGED <<nintr, dev, last, boot, pipe, linked, handles, holders>>

\* ... and returns
write_memory_ret(t) ==
    /\ pc[t] = "write_memory_ret"
    /\ xfer' = xfer \ {t}
    /\ Goto(t, "write_post")
    /\ UNCHANGED <<nintr, dev, last, boot, pipe, linked, handles, holders, nxfer, uaf>>

write_post(t) ==
    /\ pc[t] = "write_post"
    /\ nxsem_post(t)
    /\ nxfer' = [nxfer EXCEPT ![t] = 0]
    /\ Goto(t, "idle")
    /\ UNCHANGED <<nintr, crefs, unlinked, sites, last, boot, pipe, linked, handles, xfer>>

(* ft80x_ioctl *)

ioctl_call(t) ==
    /\ pc[t] = "idle"
    /\ handles[t] > 0
    /\ Goto(t, "ioctl_wait")
    /\ UNCHANGED <<nintr, dev, last, boot, pipe, linked, handles, holders, xfer, nxfer, uaf>>

ioctl_wait(t) ==
    /\ pc[t] = "ioctl_wait"
    /\ nxsem_wait(t, "ioctl_cmd")
    /\ UNCHANGED <<crefs, unlinked, sites, last, boot, pipe, linked, handles, xfer, nxfer>>

\* switch (cmd) and the argument check of the command
ioctl_cmd(t) ==
    /\ pc[t] = "ioctl_cmd"
    /\ \E ok \in {ioctl_args_ok(req) : req \in IoctlRequests} :
         IF ok THEN Goto(t, "ioctl_xfer") ELSE Goto(t, "ioctl_post")
    /\ UNCHANGED <<nintr, dev, last, boot, pipe, linked, handles, holders, xfer, nxfer, uaf>>

\* ft80x_write_memory() or ft80x_read_word() is entered ...
ioctl_xfer(t) ==
    /\ pc[t] = "ioctl_xfer"
    /\ Touch
    /\ xfer' = xfer \cup {t}
    /\ nxfer' = [nxfer EXCEPT ![t] = @ + 1]
    /\ Goto(t, "ioctl_xfer_ret")
    /\ UNCHANGED <<nintr, dev, last, boot, pipe, linked, handles, holders>>

\* ... and returns
ioctl_xfer_ret(t) ==
    /\ pc[t] = "ioctl_xfer_ret"
    /\ xfer' = xfer \ {t}
    /\ Goto(t, "ioctl_post")
    /\ UNCHANGED <<nintr, dev, last, boot, pipe, linked, handles, holders, nxfer, uaf>>

ioctl_post(t) ==
    /\ pc[t] = "ioctl_post"
    /\ nxsem_post(t)
    /\ nxfer' = [nxfer EXCEPT ![t] = 0]
    /\ Goto(t, "idle")
    /\ UNCHANGED <<nintr, crefs, unlinked, sites, last, boot, pipe, linked, handles, xfer>>

Step(t) ==
    \/ open_call(t) \/ open_wait(t) \/ open_incr(t) \/ open_post(t)
    \/ close_call(t) \/ close_wait(t) \/ close_test(t) \/ close_zero(t)
    \/ close_unlinked(t) \/ close_destroy(t) \/ close_decr(t) \/ close_post(t)
    \/ unlink_call(t) \/ unlink_set(t) \/ unlink_test(t) \/ unlink_destroy(t)
    \/ write_call(t) \/ write_wait(t) \/ write_memory(t) \/ write_memory_ret(t)
    \/ write_post(t)
    \/ ioctl_call(t) \/ ioctl_wait(t) \/ ioctl_cmd(t) \/ ioctl_xfer(t)
    \/ ioctl_xfer_ret(t) \/ ioctl_post(t)

NextConc == \E t \in Threads : Step(t)

SpecConc == Init /\ [][NextConc]_vars

\* A thread inside an operation keeps running; the callers of the driver
\* are free never to start another operation.
Running(t) ==
    \/ open_wait(t) \/ open_incr(t) \/ open_post(t)
    \/ close_wait(t) \/ close_test(t) \/ close_zero(t)
    \/ close_unlinked(t) \/ close_destroy(t) \/ close_decr(t) \/ close_post(t)
    \/ unlink_set(t) \/ unlink_test(t) \/ unlink_destroy(t)
    \/ write_wait(t) \/ write_memory(t) \/ write_memory_ret(t) \/ write_post(t)
    \/ ioctl_wait(t) \/ ioctl_cmd(t) \/ ioctl_xfer(t) \/ ioctl_xfer_ret(t)
    \/ ioctl_post(t)

FairSpecConc == SpecConc /\ \A t \in Threads : WF_vars(Running(t))

\* A blocked caller is queued on the semaphore and the post hands the
\* semaphore to a queued caller: no waiter is overtaken for ever.
Waits(t) == open_wait(t) \/ close_wait(t) \/ write_wait(t) \/ ioctl_wait(t)

QueuedSpecConc == FairSpecConc /\ \A t \in Threads : SF_vars(Waits(t))

---------------------------------------------------------------------------
(* SpecPipe: pipe.c.  Tasks create pipes with pipe_register() and release  *)
(* them with the last pipe_close().  A step is one call on g_pipesem or    *)
(* one access to g_pipeset or g_pipecreated; the 32-bit words are the sets *)
(* of the bit numbers that are set in them.                                *)

NPipeThreads == 2
MaxPipeCalls == 3

MAX_PIPES == 32
ENFILE == 23
EINTR == 4

PipeThreads == 1..NPipeThreads

PipeNumbers == 0..(MAX_PIPES - 1)

g_pipesem == pipe.sem

g_pipeset == pipe.set

g_pipecreated == pipe.created

task == pipe.task

\* A task outside pipe.c that owns no pipe
NoTask ==
    [pc |-> "idle", op |-> "none", pipeno |-> -1, ret |-> OK, fail |-> "none",
     held |-> 0, own |-> {}]

\* n pipes were created before and are still open in tasks that keep them
PipesInUse == {0, MAX_PIPES - 1, MAX_PIPES}

InitPipe ==
    /\ crefs = 0
    /\ unlinked = FALSE
    /\ exclsem = 1
    /\ sites = <<>>
    /\ last = NoCall
    /\ linked = TRUE
    /\ pc = [t \in Threads |-> "idle"]
    /\ handles = [t \in Threads |-> 0]
    /\ holders = {}
    /\ xfer = {}
    /\ nxfer = [t \in Threads |-> 0]
    /\ nintr = 0
    /\ uaf = FALSE
    /\ frequency = OP_FREQUENCY_MAX
    /\ reg = Registered
    /\ \E n \in PipesInUse :
         pipe = [sem |-> 1, set |-> 0..(n - 1), created |-> 0..(n - 1),
                 calls |-> 0, intr |-> 0, dup |-> FALSE,
                 task |-> [t \in PipeThreads |-> NoTask]]

\* pipe_allocate(): the lowest clear bit of g_pipeset, -ENFILE if none
pipe_allocate(set) ==
    IF PipeNumbers \subseteq set
    THEN -ENFILE
    ELSE CHOOSE p \in PipeNumbers : p \notin set /\ \A q \in 0..(p - 1) : q \in set

\* nxsem_wait(&g_pipesem): takes the semaphore when its count is positive;
\* a caller that has to block stays blocked until the count is positive or
\* a signal interrupts the wait, which then fails
pipesem_wait(t, taken, failed, failret) ==
    \/ /\ g_pipesem > 0
       /\ pipe' = [pipe EXCEPT !.sem = @ - 1,
                               !.task[t].held = @ + 1,
                               !.task[t].pc = taken]
    \/ /\ g_pipesem = 0
       /\ pipe.intr < MaxIntr
       /\ pipe' = [pipe EXCEPT !.intr = @ + 1,
                               !.task[t].ret = failret,
                               !.task[t].pc = failed]

\* nxsem_post(&g_pipesem)
pipesem_post(t, next) ==
    pipe' = [pipe EXCEPT !.sem = @ + 1,
                         !.task[t].held = @ - 1,
                         !.task[t].pc = next]

(* pipe_register *)

register_call(t) ==
    /\ task[t].pc = "idle"
    /\ pipe.calls < MaxPipeCalls
    /\ pipe' = [pipe EXCEPT !.calls = @ + 1,
                            !.task[t].pc = "register_wait",
                            !.task[t].op = "register",
                            !.task[t].pipeno = -1,
                            !.task[t].ret = OK,
                            !.task[t].fail = "none"]
    /\ UNCHANGED ft80x

\* line 160: ret = nxsem_wait(&g_pipesem); if (ret < 0) goto errout
register_wait(t) ==
    /\ task[t].pc = "register_wait"
    /\ pipesem_wait(t, "allocate", "idle", -EINTR)
    /\ UNCHANGED ft80x

\* lines 93-95 and 169-173: the loop of pipe_allocate() over g_pipeset
allocate(t) ==
    /\ task[t].pc = "allocate"
    /\ LET pipeno == pipe_allocate(g_pipeset) IN
       IF pipeno < 0
       THEN pipe' = [pipe EXCEPT !.task[t].ret = pipeno,
                                 !.task[t].pc = "errout_with_sem"]
       ELSE pipe' = [pipe EXCEPT !.task[t].pipeno = pipeno,
                                 !.task[t].pc = "allocate_set"]
    /\ UNCHANGED ft80x

\* line 97: g_pipeset |= (1 << pipeno)
allocate_set(t) ==
    /\ task[t].pc = "allocate_set"
    /\ pipe' = [pipe EXCEPT !.set = @ \cup {task[t].pipeno},
                            !.task[t].pc = "created_test"]
    /\ UNCHANGED ft80x

\* lines 181-201: the test of g_pipecreated, pipecommon_allocdev() and
\* register_driver(), either of which may fail
created_test(t) ==
    /\ task[t].pc = "created_test"
    /\ IF task[t].pipeno \in g_pipecreated
       THEN pipe' = [pipe EXCEPT !.task[t].pc = "register_post"]
       ELSE \/ pipe' = [pipe EXCEPT !.task[t].ret = -ENOMEM,
                                    !.task[t].fail = "pipecommon_allocdev",
                                    !.task[t].pc = "free_wait"]
            \/ pipe' = [pipe EXCEPT !.task[t].ret = -ENOMEM,
                                    !.task[t].fail = "register_driver",
                                    !.task[t].pc = "driver_failed"]
            \/ pipe' = [pipe EXCEPT !.task[t].pc = "created_set"]
    /\ UNCHANGED ft80x

\* line 205: g_pipecreated |= (1 << pipeno)
created_set(t) ==
    /\ task[t].pc = "created_set"
    /\ pipe' = [pipe EXCEPT !.created = @ \cup {task[t].pipeno},
                            !.task[t].pc = "register_post"]
    /\ UNCHANGED ft80x

\* lines 208-209: nxsem_post(&g_pipesem); return OK.  The caller owns the pipe.
register_post(t) ==
    /\ task[t].pc = "register_post"
    /\ pipe' = [pipe EXCEPT
                  !.sem = @ + 1,
                  !.dup = @ \/ \E u \in PipeThreads : task[t].pipeno \in task[u].own,
                  !.task[t].held = @ - 1,
                  !.task[t].own = @ \cup {task[t].pipeno},
                  !.task[t].op = "none",
                  !.task[t].pc = "idle"]
    /\ UNCHANGED ft80x

\* lines 199-200 and 212: nxsem_post(&g_pipesem); goto errout_with_dev
driver_failed(t) ==
    /\ task[t].pc = "driver_failed"
    /\ pipesem_post(t, "free_wait")
    /\ UNCHANGED ft80x

(* pipe_free *)

\* Where the caller of pipe_free() continues: errout_with_sem in
\* pipe_register(), the return of pipe_close()
free_return(t) == IF task[t].op = "register" THEN "errout_with_sem" ELSE "idle"

\* line 114: ret = nxsem_wait(&g_pipesem); if (ret == OK)
free_wait(t) ==
    /\ task[t].pc = "free_wait"
    /\ pipesem_wait(t, "free_clear", free_return(t), task[t].ret)
    /\ UNCHANGED ft80x

\* line 117: g_pipeset &= ~(1 << pipeno)
free_clear(t) ==
    /\ task[t].pc = "free_clear"
    /\ pipe' = [pipe EXCEPT !.set = @ \ {task[t].pipeno},
                            !.task[t].pc = "free_post"]
    /\ UNCHANGED ft80x

\* line 118: nxsem_post(&g_pipesem)
free_post(t) ==
    /\ task[t].pc = "free_post"
    /\ pipesem_post(t, free_return(t))
    /\ UNCHANGED ft80x

\* lines 217-221: nxsem_post(&g_pipesem); return ret
errout_with_sem(t) ==
    /\ task[t].pc = "errout_with_sem"
    /\ pipesem_post(t, "idle")
    /\ UNCHANGED ft80x

(* pipe_close *)

\* lines 136-141: the close of the last reference to a pipe the task owns
pipe_close(t) ==
    /\ task[t].pc = "idle"
    /\ \E pipeno \in task[t].own :
         pipe' = [pipe EXCEPT !.task[t].own = @ \ {pipeno},
                              !.task[t].op = "close",
                              !.task[t].pipeno = pipeno,
                              !.task[t].ret = OK,
                              !.task[t].fail = "none",
                              !.task[t].pc = "free_wait"]
    /\ UNCHANGED ft80x

PipeStep(t) ==
    \/ register_call(t) \/ register_wait(t) \/ allocate(t) \/ allocate_set(t)
    \/ created_test(t) \/ created_set(t) \/ register_post(t) \/ driver_failed(t)
    \/ free_wait(t) \/ free_clear(t) \/ free_post(t) \/ errout_with_sem(t)
    \/ pipe_close(t)

NextPipe == \E t \in PipeThreads : PipeStep(t)

SpecPipe == InitPipe /\ [][NextPipe]_vars

---------------------------------------------------------------------------
(* Properties of Spec *)

UINT8_MAX == UINT8_MOD - 1

\* C1: over all sequences of atomic open/close/unlink calls the instance is
\* destroyed at most once, and it is destroyed exactly when crefs = 0 and
\* unlinked = TRUE hold together.
C1_DestroyedOnceWhenUnreferenced ==
    /\ destroyed \in {0, 1}
    /\ (destroyed = 1) <=> (crefs = 0 /\ unlinked)

C1_Witness == destroyed = 1 /\ last.op = "close" /\ last.crefs0 = 1

\* C7: open() at crefs = 255 returns -EMFILE and leaves crefs unchanged; in
\* every other state it returns OK and crefs grows by exactly one, so the
\* count never wraps to 0.
C7_OpenSaturates ==
    /\ crefs \in 0..UINT8_MAX
    /\ last.op = "open" =>
         IF last.crefs0 = UINT8_MAX
         THEN last.ret = -EMFILE /\ crefs = UINT8_MAX
         ELSE last.ret = OK /\ crefs = last.crefs0 + 1

C7_Witness == last.op = "open" /\ last.crefs0 = UINT8_MAX /\ last.ret = -EMFILE

\* C8: a close() that brings the count to zero on an unlinked instance
\* destroys it inside that close(), the unlink() before it did not; an
\* unlink() destroys the instance itself exactly when crefs = 0 at the call.
C8_DestroySite ==
    /\ (last.op = "unlink" /\ last.crefs0 = 0) => sites = <<"unlink">>
    /\ (last.op = "unlink" /\ last.crefs0 > 0) => sites = <<>>
    /\ (last.op = "close" /\ last.unlinked0 /\ last.crefs0 <= 1) =>
          (sites = <<"close">> /\ crefs = 0)

C8_Witness ==
    last.op = "close" /\ last.unlinked0 /\ last.crefs0 = 1 /\ sites = <<"close">>

\* C9: close() on an instance that is not unlinked never destroys it: the
\* count becomes 0 if it was <= 1 and one less otherwise, unlinked is
\* unchanged, the count never goes below 0, and an open() of the surviving
\* instance with count 0 succeeds with crefs = 1.
C9_CloseKeepsLinkedInstance ==
    /\ crefs >= 0
    /\ (last.op = "close" /\ ~last.unlinked0) =>
          /\ destroyed = 0
          /\ unlinked = FALSE
          /\ crefs = IF last.crefs0 <= 1 THEN 0 ELSE last.crefs0 - 1
          /\ ENABLED ft80x_open
    /\ (last.op = "open" /\ last.crefs0 = 0) => (last.ret = OK /\ crefs = 1)

C9_Witness ==
    last.op = "close" /\ ~last.unlinked0 /\ last.crefs0 = 1 /\ crefs = 0

\* C10: unlinked never goes back to FALSE; unlink() leaves unlinked = TRUE
\* whatever crefs is; an unlink() of an instance that is already unlinked
\* and has open references changes neither crefs nor unlinked and destroys
\* nothing.
C10_UnlinkMonotonicIdempotent ==
    [][ /\ unlinked => unlinked'
        /\ last'.op = "unlink" =>
             /\ unlinked'
             /\ (last'.unlinked0 /\ last'.crefs0 > 0) =>
                  /\ crefs' = last'.crefs0
                  /\ destroyed' = last'.destroyed0 ]_vars

C10_Witness ==
    last.op = "unlink" /\ last.unlinked0 /\ last.crefs0 > 0 /\ destroyed = 0

\* C16: FT80XIOC_PUTDISPLAYLIST with a display list structure at a
\* non-null address is refused with -EINVAL and without a transport call
\* when the length is 0, is not a multiple of 4 or exceeds the capacity or
\* when the data pointer is misaligned; every other request returns OK and
\* makes exactly one block write of length bytes to the display list.
C16_PutDisplayListChecked ==
    (last.op = "ioctl" /\ last.req.cmd = "FT80XIOC_PUTDISPLAYLIST"
                       /\ last.req.arg # 0) =>
        LET data   == last.req.arg + 4
            length == last.req.val
        IN  IF \/ length = 0
               \/ length % 4 # 0
               \/ data % 4 # 0
               \/ length > FT80X_RAM_DL_SIZE
            THEN last.ret = -EINVAL /\ last.io = <<>>
            ELSE /\ last.ret = OK
                 /\ last.io = <<Xfer("write_memory", "FT80X_RAM_DL", 0, length,
                                     data, frequency)>>

C16_Witness ==
    /\ last.op = "ioctl"
    /\ last.req.cmd = "FT80XIOC_PUTDISPLAYLIST"
    /\ last.req.val = FT80X_RAM_DL_SIZE
    /\ last.ret = OK
    /\ Len(last.io) = 1

\* C17: FT80XIOC_GETRESULT32 with an offset below the capacity that is not
\* a multiple of 4 returns -EINVAL and reads nothing from the bus.
C17_MisalignedOffsetRefused ==
    (last.op = "ioctl" /\ last.req.cmd = "FT80XIOC_GETRESULT32"
                       /\ last.req.val % 4 # 0
                       /\ last.req.val < FT80X_RAM_DL_SIZE) =>
        (last.ret = -EINVAL /\ last.io = <<>>)

\* C18: FT80XIOC_GETRESULT32 with a result structure at a non-null, aligned
\* address: for every offset that is a multiple of 4 and at most capacity - 4
\* it returns OK, reads exactly one word at display list + offset and
\* stores that word in result->value; for every offset >= capacity it
\* returns -EINVAL and reads nothing.
C18_GetResult32Bounds ==
    (last.op = "ioctl" /\ last.req.cmd = "FT80XIOC_GETRESULT32"
                       /\ last.req.arg # 0 /\ last.req.arg % 4 = 0) =>
        LET offset == last.req.val IN
        /\ (offset % 4 = 0 /\ offset <= FT80X_RAM_DL_SIZE - 4) =>
              /\ last.ret = OK
              /\ Len(last.io) = 1
              /\ last.io[1].op = "read_word"
              /\ last.io[1].base = "FT80X_RAM_DL"
              /\ last.io[1].off = offset
              /\ last.out = last.io[1].val
        /\ offset >= FT80X_RAM_DL_SIZE =>
              (last.ret = -EINVAL /\ last.io = <<>>)

C18_Witness ==
    /\ last.op = "ioctl"
    /\ last.req.cmd = "FT80XIOC_GETRESULT32"
    /\ last.req.val = FT80X_RAM_DL_SIZE - 4
    /\ last.ret = OK
    /\ last.out # 0

\* C19: write(buffer, length) does what FT80XIOC_PUTDISPLAYLIST does for
\* the display list whose data is at buffer and whose size is length: it
\* is refused with -EINVAL on the same conditions, and when accepted it
\* makes the same single block write and returns length.
C19_WriteIsPutDisplayList ==
    last.op = "write" =>
        LET dl == [cmd |-> "FT80XIOC_PUTDISPLAYLIST",
                   arg |-> last.req.arg - 4, val |-> last.req.val]
        IN  /\ ~last.panic
            /\ IF last.req.arg # 0 /\ ioctl_args_ok(dl)
               THEN /\ last.ret = last.req.val
                    /\ last.io = <<ioctl_transport(dl, 0, frequency)>>
               ELSE /\ last.ret = -EINVAL
                    /\ last.io = <<>>

\* C20: a write or ioctl whose transport call failed on the bus returns a
\* negative value to its caller, and it made the transport call once.
C20_TransportFaultReported ==
    (last.op \in {"write", "ioctl"} /\ last.fault) =>
        (last.ret < 0 /\ Len(last.io) = 1)

\* C22: an ioctl with a command the driver does not know returns -ENOTTY,
\* makes no transport call, leaves crefs, unlinked and frequency as they
\* were, destroys nothing and leaves the semaphore released.
C22_UnknownCommandNoEffect ==
    [][ (last'.op = "ioctl" /\ last'.req.cmd = "unrecognized") =>
            /\ last'.ret = -ENOTTY
            /\ last'.io = <<>>
            /\ ~last'.panic
            /\ crefs' = crefs
            /\ unlinked' = unlinked
            /\ frequency' = frequency
            /\ sites' = sites
            /\ exclsem' = 1 ]_vars

C22_Witness ==
    last.op = "ioctl" /\ last.req.cmd = "unrecognized" /\ last.ret = -ENOTTY

\* C23: no call stops the system on an assertion; write() with a null or
\* misaligned buffer or with a zero, non-multiple-of-4 or oversized length
\* returns -EINVAL.
C23_InvalidWriteReturns ==
    /\ ~last.panic
    /\ (last.op = "write" /\ ( \/ last.req.arg = 0
                                \/ last.req.arg % 4 # 0
                                \/ last.req.val = 0
                                \/ last.req.val % 4 # 0
                                \/ last.req.val > FT80X_RAM_DL_SIZE )) =>
          last.ret = -EINVAL

\* C24: read() returns 0 whatever its arguments and whatever the state of
\* the instance, makes no transport call, and changes neither the
\* semaphore nor any field of the instance.
C24_ReadIsEndOfStream ==
    [][ last'.op = "read" =>
            /\ last'.ret = 0
            /\ last'.io = <<>>
            /\ ~last'.panic
            /\ exclsem' = exclsem
            /\ crefs' = crefs
            /\ unlinked' = unlinked
            /\ frequency' = frequency
            /\ sites' = sites ]_vars

C24_Witness ==
    /\ last.op = "read"
    /\ last.req.arg # 0
    /\ last.req.val = FT80X_RAM_DL_SIZE
    /\ last.ret = 0
    /\ unlinked

\* The positions of event e in a sequence of events
EventsAt(events, e) == {i \in 1..Len(events) : events[i] = e}

\* C25: a call that destroys the instance calls the destroy method of the
\* lower half exactly when there is one and before the semaphore and the
\* instance are released; the semaphore is destroyed once and the instance
\* is freed once, and a call that destroys nothing does none of these.
C25_DestroyOrder ==
    LET hooks == EventsAt(last.teardown, "lower_destroy")
        sems  == EventsAt(last.teardown, "sem_destroy")
        frees == EventsAt(last.teardown, "kmm_free")
    IN  IF destroyed > last.destroyed0
        THEN /\ Cardinality(hooks) = (IF last.hook THEN 1 ELSE 0)
             /\ Cardinality(sems) = 1
             /\ Cardinality(frees) = 1
             /\ \A h \in hooks : \A r \in sems \cup frees : h < r
             /\ \A r \in sems : \A f \in frees : r < f
        ELSE last.teardown = <<>>

C25_Witness ==
    /\ last.op = "close"
    /\ destroyed > last.destroyed0
    /\ last.hook
    /\ last.teardown[1] = "lower_destroy"

\* C26: write, ioctl and read change neither crefs nor unlinked and destroy
\* nothing, and no file operation changes the frequency of the instance.
C26_DispatcherFrame ==
    [][ /\ last'.op \in {"write", "ioctl", "read"} =>
              /\ crefs' = crefs
              /\ unlinked' = unlinked
              /\ sites' = sites
        /\ frequency' = frequency ]_vars

C26_Witness ==
    /\ last.op = "ioctl"
    /\ last.req.cmd = "FT80XIOC_PUTDISPLAYLIST"
    /\ last.ret = OK
    /\ crefs = UINT8_MAX
    /\ unlinked

---------------------------------------------------------------------------
(* Properties of SpecReg *)

\* The chip on the bus is the one the driver was built for
GoodChip ==
    /\ chip.id % (ID_MASK + 1) = CHIPID
    /\ chip.romid = ROMID(config.variant)

\* The positions of the bus sequence at which register r is written
WritesOf(bus, r) ==
    {i \in 1..Len(bus) : bus[i].base = r /\ bus[i].op \notin {"read_byte", "read_word"}}

TimingRegisters ==
    {"FT80X_REG_HCYCLE", "FT80X_REG_HOFFSET", "FT80X_REG_HSYNC0",
     "FT80X_REG_HSYNC1", "FT80X_REG_VCYCLE", "FT80X_REG_VOFFSET",
     "FT80X_REG_VSYNC0", "FT80X_REG_VSYNC1", "FT80X_REG_SWIZZLE",
     "FT80X_REG_PCLK_POL", "FT80X_REG_CSPREAD", "FT80X_REG_HSIZE",
     "FT80X_REG_VSIZE"}

\* Everything bring-up programs between the two writes of REG_PCLK
ProgrammedBeforeEnable ==
    TimingRegisters \cup {"FT80X_RAM_DL", "FT80X_REG_DLSWAP",
                          "FT80X_REG_GPIO_DIR", "FT80X_REG_GPIO"}

\* C11: when REG_ID holds the identity in its low bits and ROM_CHIPID holds
\* the ROMID of the built variant, ft80x_initialize() returns OK having
\* enabled the pixel clock and switched to the operating frequency, and
\* ft80x_register() goes on to register_driver().
C11_GoodChipBringsUp ==
    (reg.init_ran /\ GoodChip) =>
        /\ reg.init_ret = OK
        /\ WritesOf(reg.bus, "FT80X_REG_PCLK") # {}
        /\ frequency = config.op_frequency
        /\ reg.driver_called

\* C12: when the low bits of REG_ID are not the identity or ROM_CHIPID is
\* not the ROMID of the built variant, bring-up and registration return
\* -ENODEV, the bus saw host commands and reads only (no register and no
\* display list memory was written), and register_driver() was not called.
C12_WrongChipAborts ==
    (reg.init_ran /\ ~GoodChip) =>
        /\ reg.init_ret = -ENODEV
        /\ reg.ret = -ENODEV
        /\ \A i \in 1..Len(reg.bus) :
              reg.bus[i].op \in {"host_command", "read_word"}
        /\ \A r \in ProgrammedBeforeEnable \cup {"FT80X_REG_PCLK"} :
              WritesOf(reg.bus, r) = {}
        /\ ~reg.driver_called
        /\ ~reg.node

C12_Witness ==
    /\ reg.init_ran
    /\ chip.id % (ID_MASK + 1) # CHIPID
    /\ reg.ret = -ENODEV
    /\ Len(reg.bus) = 3
    /\ reg.bus[3].base = "FT80X_REG_ID"

C15_FailureReleasesAll ==
    (reg.calls > 0 /\ reg.ret < 0) =>
        /\ ~reg.node
        /\ reg.heap = 0
        /\ reg.sems = 0

---------------------------------------------------------------------------
(* Properties of SpecPipe *)

\* The positions where a task reads or writes g_pipeset or g_pipecreated
PipeAccessPositions ==
    {"allocate", "allocate_set", "created_test", "created_set", "free_clear"}

\* The positions of pipe_register() where its pipe number is allocated
AllocatedPositions == {"created_test", "created_set", "register_post"}

\* C28: g_pipesem stays a mutex on every path of pipe_register, pipe_free
\* and pipe_close: its count never exceeds 1, no task posts it more often
\* than it took it, and at most one task at a time is at an access to
\* g_pipeset or g_pipecreated.
C28_PipeSemIsMutex ==
    /\ g_pipesem <= 1
    /\ \A t \in PipeThreads : task[t].held >= 0
    /\ Cardinality({t \in PipeThreads : task[t].pc \in PipeAccessPositions}) <= 1

\* C29: pipe_register never waits in pipe_free for g_pipesem while the
\* same call holds it, so every path of it comes to its return.
C29_RegisterNeverWaitsOnItself ==
    \A t \in PipeThreads :
        ~ ( /\ task[t].op = "register"
            /\ task[t].pc = "free_wait"
            /\ task[t].held > 0 )

\* C30: pipe_allocate picks the lowest clear bit of g_pipeset and sets it,
\* fails with -ENFILE only when all 32 are set, no pipe number is held by
\* two calls of pipe_register at once, and after pipe_register returned an
\* error the bit it had allocated is clear unless a later call took it.
C30_PipeNumbers ==
    /\ \A t \in PipeThreads :
         /\ task[t].pc = "allocate_set" =>
                task[t].pipeno = pipe_allocate(g_pipeset)
         /\ task[t].pc \in AllocatedPositions => task[t].pipeno \in g_pipeset
         /\ (task[t].pc = "errout_with_sem" /\ task[t].ret = -ENFILE) =>
                PipeNumbers \subseteq g_pipeset
    /\ ~pipe.dup
    /\ \A t, u \in PipeThreads :
         t # u =>
             /\ task[t].own \cap task[u].own = {}
             /\ task[t].pc \in AllocatedPositions =>
                    /\ task[t].pipeno \notin task[u].own
                    /\ task[u].pc \in AllocatedPositions =>
                           task[t].pipeno # task[u].pipeno
    /\ \A t \in PipeThreads :
         ( /\ task[t].pc = "idle"
           /\ task[t].op = "register"
           /\ task[t].ret < 0
           /\ task[t].pipeno >= 0
           /\ task[t].pipeno \in g_pipeset ) =>
               \E u \in PipeThreads \ {t} :
                   \/ task[t].pipeno \in task[u].own
                   \/ /\ task[u].pipeno = task[t].pipeno
                      /\ task[u].pc \in AllocatedPositions

---------------------------------------------------------------------------
(* Properties of SpecConc *)

AllIdle == \A t \in Threads : pc[t] = "idle"

\* The positions where a caller is about to call nxsem_wait()
WaitPositions == {"open_wait", "close_wait", "write_wait", "ioctl_wait"}

\* C21: a caller of open, close, write or ioctl whose wait for the
\* semaphore fails returns at once: crefs and unlinked keep their values,
\* no transport call is made, nothing is destroyed and the semaphore is
\* neither taken nor posted.
C21_FailedWaitNoEffect ==
    [][ /\ nintr' # nintr =>
              \E t \in Threads : pc[t] \in WaitPositions /\ pc'[t] = "idle"
        /\ \A t \in Threads :
              (pc[t] \in WaitPositions /\ pc'[t] = "idle") =>
                  /\ crefs' = crefs
                  /\ unlinked' = unlinked
                  /\ sites' = sites
                  /\ exclsem' = exclsem
                  /\ holders' = holders
                  /\ xfer' = xfer
                  /\ nxfer' = nxfer
                  /\ handles' = handles ]_vars

C21_Witness ==
    /\ nintr > 0
    /\ ~Freed
    /\ exclsem = 0
    /\ \E t \in Threads : pc[t] = "idle" /\ t \notin holders
    /\ \E t \in Threads : pc[t] = "write_memory_ret" /\ t \in holders

C27_WaiterProceeds ==
    \A t \in Threads :
        (pc[t] \in WaitPositions /\ ~Freed) ~>
            (t \in holders \/ pc[t] = "idle" \/ Freed)

\* C2: with unlink() and the final close() interleaved access by access,
\* ft80x_destroy() never runs twice.
C2_NoDoubleDestroy == destroyed <= 1

\* C3: once ft80x_destroy() ran, no caller reads or writes a field of the
\* instance, its transport handle or its semaphore.
C3_NoAccessAfterDestroy == uaf = FALSE

\* C4: destruction is never missed: when unlink() has marked the instance,
\* the count was driven to 0 and every call has returned, the instance has
\* been destroyed.
C4_DestructionNotMissed ==
    (AllIdle /\ unlinked /\ crefs = 0) => destroyed >= 1

C4_Witness == AllIdle /\ unlinked /\ crefs = 0 /\ sites = <<"close">> /\ ~uaf

\* Positions at which the next step reads or writes crefs or unlinked,
\* destroys the instance or is inside a transport call
AccessPositions ==
    {"open_incr", "close_test", "close_zero", "close_unlinked", "close_decr",
     "close_destroy", "unlink_set", "unlink_test", "unlink_destroy",
     "write_memory", "write_memory_ret", "ioctl_xfer", "ioctl_xfer_ret"}

\* C5: every operation that touches the mutable fields or the bus holds
\* the exclusion semaphore while it does, so at most one thread at a time
\* is at such a position.
C5_AccessUnderSemaphore ==
    \A t \in Threads :
        pc[t] \in AccessPositions =>
            /\ t \in holders
            /\ \A u \in Threads \ {t} : pc[u] \notin AccessPositions

\* C6: transport calls of concurrent write and ioctl callers never overlap,
\* and a write that was accepted has made exactly one block write when it
\* releases the semaphore.
C6_TransportSerialized ==
    /\ Cardinality(xfer) <= 1
    /\ \A t \in Threads : pc[t] = "write_post" => nxfer[t] = 1

====
